---- MODULE Spec2Model ----
(***************************************************************************)
(* A model of "btrfs send" (cmds-send.c): the option loop, the batch       *)
(* pre-validation, the per-subvolume loop of cmd_send, the parent search   *)
(* find_good_parent and the clone-source array.                            *)
(*                                                                         *)
(* A path argument is modelled by the root id of the subvolume it names;   *)
(* 0 is a path that does not exist.  A uuid is modelled by the negated     *)
(* root id of its subvolume; 0 is the nil uuid.                            *)
(***************************************************************************)
EXTENDS Integers, Sequences, FiniteSets, TLC

VARIABLES
    pu,                   \* registry: root id -> parent_uuid
    ct,                   \* registry: root id -> ctransid
    pc,                   \* position of cmd_send
    clone_sources,        \* send.clone_sources[0 .. clone_sources_count-1]
    root_id,              \* cmd_send: u64 root_id
    parent_root_id,       \* cmd_send: u64 parent_root_id
    full_send,            \* cmd_send: int full_send
    new_end_cmd_semantic, \* cmd_send: int new_end_cmd_semantic
    snapshot_parent,      \* cmd_send: char *snapshot_parent (0: NULL)
    send_flags,           \* cmd_send: u64 send_flags, as a set of flag names
    args,                 \* argv[optind .. argc-1], as far as read
    i,                    \* cmd_send: loop index, counted from 1 (= optind)
    ret,                  \* cmd_send: int ret
    exit_status,          \* exit status of the process (-1: none yet)
    sends,                \* history: arguments of every BTRFS_IOC_SEND ioctl
    searches,             \* history: every call of find_good_parent
    ds,                   \* the state of do_send, of its dump thread and of
                          \* the pipe between the kernel and the thread
    seen_fsid_hash,       \* cmds-filesystem.c: slot -> the fsids of its list
    added_fsids,          \* history: the fsids added since the table was freed
    fsid_call             \* history: the last call on the table

\* the table of seen fsids of "btrfs filesystem show" and its histories
fsidVars == <<seen_fsid_hash, added_fsids, fsid_call>>

\* the state of do_send and of its dump thread
doSendVars == <<ds>>

do_send_pc == ds.do_send_pc            \* position of do_send ("idle": not called)
do_send_ret == ds.do_send_ret          \* do_send: int ret
dump_pc == ds.dump_pc                  \* position of dump_thread ("none": not created)
dump_ret == ds.dump_ret                \* dump_thread: int ret
buf == ds.buf                          \* dump_thread: buf[0 .. readed-1]
pos == ds.pos                          \* write_buf: int pos
pipe == ds.pipe                        \* the bytes in the pipe
pipe_cap == ds.pipe_cap                \* the capacity of the pipe
wfds == ds.wfds                        \* who holds the write end of the pipe open
rfd == ds.rfd                          \* pipefd[0] (= send->send_fd) is open
todo == ds.todo                        \* the bytes the kernel has still to write
produced == ds.produced                \* history: the bytes the kernel wrote to the pipe
sink == ds.sink                        \* the bytes written to dump_fd
cancel_requests == ds.cancel_requests  \* history: cancel requests made to the kernel

\* the state of cmd_send that do_send leaves alone
cmdVars == <<pu, ct, clone_sources, root_id, parent_root_id, full_send,
             new_end_cmd_semantic, snapshot_parent, send_flags, args, i, ret,
             searches>>

vars == <<pu, ct, pc, clone_sources, root_id, parent_root_id, full_send,
          new_end_cmd_semantic, snapshot_parent, send_flags, args, i, ret,
          exit_status, sends, searches, ds, seen_fsid_hash, added_fsids,
          fsid_call>>

(***************************************************************************)
(* Bounds of the model.                                                    *)
(***************************************************************************)
\* subvolumes of the filesystem in a session
NSub == 2
\* subvolumes of the filesystem when find_good_parent is exercised alone
NSearchSub == 3
\* -c options on a command line
MaxCloneOpts == 1
\* length of the clone-source array when find_good_parent is exercised alone
MaxSources == 3
\* subvolumes named on a command line
MaxArgs == 3

(***************************************************************************)
(* Program constants.                                                      *)
(***************************************************************************)
\* width in bits of u64 / __s64, scaled down
Width == 2
ENOENT == 2
EIO == 5
ENOMEM == 12
EINVAL == 22

Mod == 2 ^ Width
SMin == 2 ^ (Width - 1)
\* (u64)-1
U64Max == Mod - 1

Range(s) == {s[k] : k \in 1..Len(s)}

(***************************************************************************)
(* The subvolume registry (send-utils: subvol_uuid_search).                *)
(***************************************************************************)
Subvols == DOMAIN pu

Uuid(r) == 0 - r

NULL == [root_id |-> 0, uuid |-> 0, parent_uuid |-> 0, ctransid |-> 0]

Info(r) == [root_id |-> r, uuid |-> Uuid(r), parent_uuid |-> pu[r],
            ctransid |-> ct[r]]

SearchByRootId(r) == IF r \in Subvols THEN Info(r) ELSE NULL

SearchByUuid(u) ==
    IF \E r \in Subvols : Uuid(r) = u
    THEN Info(CHOOSE r \in Subvols : Uuid(r) = u)
    ELSE NULL

SearchByPath(p) == IF p \in Subvols THEN Info(p) ELSE NULL

\* A snapshot records the uuid of a subvolume that existed before it: root
\* ids are handed out in increasing order, so the parent has a smaller id.
ParentUuids(n) ==
    {f \in [1..n -> {0} \cup {Uuid(q) : q \in 1..n}] :
        \A r \in 1..n : f[r] = 0 \/ 0 - f[r] < r}

\* the parent_uuid entries of a registry of n subvolumes of which a search
\* reads those of S; an entry that is not read is left as in Unread
ReadParentUuids(n, S) ==
    {f \in ParentUuids(n) : \A r \in (1..n) \ S : f[r] = 0}

\* the ctransid entries of a registry of n subvolumes of which a search
\* reads those of S
ReadCtransids(n, S) ==
    {[r \in 1..n |-> IF r \in S THEN g[r] ELSE 0] :
        g \in [S \cap (1..n) -> 0..U64Max]}

(***************************************************************************)
(* get_root_id, get_parent                                                 *)
(***************************************************************************)
get_root_id(path, old) ==
    LET si == SearchByPath(path)
    IN  IF si = NULL THEN [ret |-> 0 - ENOENT, root_id |-> old]
        ELSE [ret |-> 0, root_id |-> si.root_id]

\* lines 85-89 returning the subvolume's own record where the search by
\* uuid finds none
GetParentOrSelf(r) ==
    LET si_tmp == SearchByRootId(r)
    IN  IF si_tmp = NULL THEN NULL
        ELSE IF SearchByUuid(si_tmp.parent_uuid) = NULL THEN si_tmp
        ELSE SearchByUuid(si_tmp.parent_uuid)

get_parent(r) ==
    LET si_tmp == SearchByRootId(r)
    IN  IF si_tmp = NULL THEN NULL ELSE SearchByUuid(si_tmp.parent_uuid)

(***************************************************************************)
(* Fixed-width arithmetic of find_good_parent                              *)
(***************************************************************************)
ToU64(x) == x % Mod

ToS64(u) == IF u >= SMin THEN u - Mod ELSE u

\* tmp = parent2->ctransid - parent->ctransid, stored in an __s64
SignedDiff(a, b) == ToS64(ToU64(a - b))

\* "if (tmp < 0) tmp *= -1;" where the product is representable
NegateWraps(tmp) == tmp = 0 - SMin

\* tmp after lines 136-138, converted to u64 for the comparison of line 139;
\* the negation of the least __s64 wraps to itself where it does not trap
Distance(a, b) ==
    LET tmp == SignedDiff(a, b)
    IN  IF tmp < 0
        THEN (IF NegateWraps(tmp) THEN ToU64(tmp) ELSE 0 - tmp)
        ELSE tmp

(***************************************************************************)
(* find_good_parent                                                        *)
(***************************************************************************)
\* lines 108-114: is the recorded parent itself a clone source?
InCloneSourcesNever(cs, id) == FALSE

InCloneSources(cs, id) == \E k \in 1..Len(cs) : cs[k] = id

\* lines 118-119 testing the record of the clone source only: a clone source
\* without a recorded parent taken for one snapshotted from the same parent
IsSiblingOrUnresolved(parent, id) ==
    LET parent2 == get_parent(id)
    IN  /\ SearchByRootId(id) # NULL
        /\ (parent2 = NULL \/ parent2.root_id = parent.root_id)

\* lines 117-125: clone source cs[k] was snapshotted from the same parent
IsSibling(parent, id) ==
    LET parent2 == get_parent(id)
    IN  parent2 # NULL /\ parent2.root_id = parent.root_id

\* lines 139-151 with the comparison turned around
CloserLast(tmp, best_diff) == tmp <= best_diff

\* line 139
Closer(tmp, best_diff) == tmp < best_diff

RECURSIVE ScanSiblings(_, _, _, _)
\* lines 116-152, from index k on; st holds best_parent, best_diff and ret
ScanSiblings(parent, cs, k, st) ==
    IF k > Len(cs) \/ st.ret < 0 THEN st
    ELSE IF ~IsSibling(parent, cs[k]) THEN ScanSiblings(parent, cs, k + 1, st)
    ELSE
        LET parent2 == SearchByRootId(cs[k])
            tmp == Distance(parent2.ctransid, parent.ctransid)
        IN  IF parent2 = NULL
            THEN [st EXCEPT !.ret = 0 - ENOENT]
            ELSE IF Closer(tmp, st.best_diff)
            THEN ScanSiblings(parent, cs, k + 1,
                     [st EXCEPT !.best_parent = parent2, !.best_diff = tmp])
            ELSE ScanSiblings(parent, cs, k + 1, st)

\* lines 154-161 with the recorded parent as a fallback
ConcludeFallback(parent, st, old) ==
    IF st.ret < 0 THEN [ret |-> st.ret, found |-> old]
    ELSE IF st.best_parent = NULL THEN [ret |-> 0, found |-> parent.root_id]
    ELSE [ret |-> 0, found |-> st.best_parent.root_id]

\* lines 132-135, 154-173: the result of the scan
Conclude(parent, st, old) ==
    IF st.ret < 0 THEN [ret |-> st.ret, found |-> old]
    ELSE IF st.best_parent = NULL THEN [ret |-> 0 - ENOENT, found |-> old]
    ELSE [ret |-> 0, found |-> st.best_parent.root_id]

\* find_good_parent(s, root_id, found): the return value and *found,
\* which holds old before the call
find_good_parent(root, cs, old) ==
    LET parent == get_parent(root)
    IN  IF parent = NULL THEN [ret |-> 0 - ENOENT, found |-> old]
        ELSE IF InCloneSources(cs, parent.root_id)
        THEN [ret |-> 0, found |-> parent.root_id]
        ELSE Conclude(parent,
                 ScanSiblings(parent, cs, 1,
                     [best_parent |-> NULL, best_diff |-> U64Max, ret |-> 0]),
                 old)

\* the call reaches "tmp *= -1" with tmp the least __s64: signed overflow
NegationOverflows(root, cs) ==
    LET parent == get_parent(root)
    IN  /\ parent # NULL
        /\ ~InCloneSources(cs, parent.root_id)
        /\ \E k \in 1..Len(cs) :
              /\ IsSibling(parent, cs[k])
              /\ NegateWraps(SignedDiff(ct[cs[k]], parent.ctransid))

(***************************************************************************)
(* add_clone_source                                                        *)
(***************************************************************************)
\* line 187 storing the new id at the front of the array
AddCloneSourceFront(cs, id, ok) ==
    IF ok THEN [ret |-> 0, clone_sources |-> <<id>> \o cs]
    ELSE [ret |-> 0 - ENOMEM, clone_sources |-> <<>>]

\* line 187 storing the new id at index 0 of an array of one
AddCloneSourceAlone(cs, id, ok) ==
    IF ok THEN [ret |-> 0, clone_sources |-> <<id>>]
    ELSE [ret |-> 0 - ENOMEM, clone_sources |-> <<>>]

\* ok: realloc succeeded
add_clone_source(cs, id, ok) ==
    IF ok THEN [ret |-> 0, clone_sources |-> Append(cs, id)]
    ELSE [ret |-> 0 - ENOMEM, clone_sources |-> <<>>]

(***************************************************************************)
(* do_send: the flags of the BTRFS_IOC_SEND ioctl, lines 287-294           *)
(***************************************************************************)
IoSendFlagsSwapped(flags, is_first_subvol, is_last_subvol) ==
    flags \cup (IF is_last_subvol = 0 THEN {"OMIT_STREAM_HEADER"} ELSE {})
          \cup (IF is_first_subvol = 0 THEN {"OMIT_END_CMD"} ELSE {})

IoSendFlags(flags, is_first_subvol, is_last_subvol) ==
    flags \cup (IF is_first_subvol = 0 THEN {"OMIT_STREAM_HEADER"} ELSE {})
          \cup (IF is_last_subvol = 0 THEN {"OMIT_END_CMD"} ELSE {})

(***************************************************************************)
(* cmd_send: lines 662-670                                                 *)
(***************************************************************************)
Bool(b) == IF b THEN 1 ELSE 0

IsFirstSubvolAlways(e, idx) == Bool(idx = 1)

IsFirstSubvol(e, idx) == IF e # 0 THEN Bool(idx = 1) ELSE 1

IsLastSubvol(e, idx, argc) == IF e # 0 THEN Bool(idx = argc) ELSE 1

\* line 644
NeedsSearchIgnoringParent(fs, prid) == fs = 0

NeedsSearchIgnoringMode(fs, prid) == prid = 0

NeedsSearch(fs, prid) == fs = 0 /\ prid = 0

\* line 685 left out
NextParentKept(prid) == prid

\* line 685
NextParent(prid) == 0

\* line 698 as "return ret > 0"
BangBangPositive(r) == IF r > 0 THEN 1 ELSE 0

\* line 698: return !!ret
BangBang(r) == IF r # 0 THEN 1 ELSE 0

(***************************************************************************)
(* Inputs                                                                  *)
(***************************************************************************)
\* path arguments: the subvolumes, and a path that does not exist
Paths == Subvols \cup {0}

\* is_subvol_ro: an error, writable, read-only
RoResults == {0 - ENOENT, 0, 1}

\* find_mount_root and the comparison with send.root_path, lines 596-612
MountResults == {"error", "other", "same"}

\* do_send: failure before the ioctl, failure of the ioctl, failure of
\* the dump thread (which exits the process), success
SendOutcomes == {"setup_fail", "ioctl_fail", "dump_fail", "ok"}

\* transaction ids of a session's registry: a subvolume created later has
\* the later transaction id
Ctransids(n) == [r \in 1..n |-> r % Mod]

(***************************************************************************)
(* cmds-filesystem.c: the table of the fsids that "btrfs filesystem show"  *)
(* has printed.  An fsid is the sequence of its bytes.                     *)
(***************************************************************************)
\* bound: the greatest value of a byte of an fsid
MaxFsidByte == 1
\* BTRFS_FSID_SIZE, scaled down
FsidSize == 2
SEEN_FSID_HASH_SIZE == 256
EEXIST == 17

Fsids == [1..FsidSize -> 0..MaxFsidByte]

\* lines 57-58 and 66-67: u8 hash = fsid[0]; slot = hash % SEEN_FSID_HASH_SIZE
Slot(fsid) == fsid[1] % SEEN_FSID_HASH_SIZE

\* the slots that the fsids of the model use
Slots == {Slot(f) : f \in Fsids}

\* line 53: every slot NULL; no call made
FsidIdle ==
    /\ seen_fsid_hash = [slot \in Slots |-> <<>>]
    /\ added_fsids = {}
    /\ fsid_call = [fn |-> "none", fsid |-> <<>>, ret |-> 0]

\* lines 55-62
is_seen_fsid(fsid) == IF seen_fsid_hash[Slot(fsid)] # <<>> THEN 1 ELSE 0

\* lines 64-99; ok: malloc succeeded
add_seen_fsid(fsid, ok) ==
    LET seen == seen_fsid_hash[Slot(fsid)]
    IN  IF \E k \in 1..Len(seen) : seen[k] = fsid
        THEN [ret |-> 0 - EEXIST, seen_fsid_hash |-> seen_fsid_hash]
        ELSE IF ~ok
        THEN [ret |-> 0 - ENOMEM, seen_fsid_hash |-> seen_fsid_hash]
        ELSE [ret |-> 0,
              seen_fsid_hash |->
                  [seen_fsid_hash EXCEPT ![Slot(fsid)] = Append(seen, fsid)]]

(***************************************************************************)
(* cmd_send                                                                *)
(***************************************************************************)
\* an entry of the registry that no search has read yet
Unread(n) == [r \in 1..n |-> 0]

\* do_send is not running
DoSendIdle ==
    ds = [do_send_pc |-> "idle", do_send_ret |-> 0, dump_pc |-> "none",
          dump_ret |-> 0, buf |-> <<>>, pos |-> 0, pipe |-> <<>>,
          pipe_cap |-> 1, wfds |-> {}, rfd |-> FALSE, todo |-> <<>>,
          produced |-> <<>>, sink |-> <<>>, cancel_requests |-> 0]

\* lines 412-427; the filesystem has the subvolumes 1..NSub
Init ==
    /\ pu = Unread(NSub)
    /\ ct = Unread(NSub)
    /\ pc = "getopt"
    /\ clone_sources = <<>>
    /\ root_id = 0
    /\ parent_root_id = 0
    /\ full_send = 1
    /\ new_end_cmd_semantic = 0
    /\ snapshot_parent = 0
    /\ send_flags = {}
    /\ args = <<>>
    /\ i = 0
    /\ ret = 0
    /\ exit_status = 0 - 1
    /\ sends = <<>>
    /\ searches = <<>>
    /\ DoSendIdle
    /\ FsidIdle

\* never: an error sending the loop back to the item that failed
OutRetry(r) ==
    /\ pc' = IF r < 0 /\ pc \in {"loop", "send"} THEN "loop" ELSE "out"
    /\ ret' = r
    /\ exit_status' = BangBang(r)

\* line 698 as "return 0"
OutZero(r) ==
    /\ pc' = "out"
    /\ ret' = r
    /\ exit_status' = 0

\* "goto out" with ret = r: lines 690-698
Out(r) ==
    /\ pc' = "out"
    /\ ret' = r
    /\ exit_status' = BangBang(r)

\* never: -e taking effect between two items of the batch
OptELate ==
    /\ pc \in {"getopt", "loop"}
    /\ new_end_cmd_semantic' = 1
    /\ UNCHANGED doSendVars
    /\ UNCHANGED fsidVars
    /\ UNCHANGED <<pu, ct, pc, clone_sources, root_id, parent_root_id,
                   full_send, snapshot_parent, send_flags, args, i, ret,
                   exit_status, sends, searches>>

\* case 'e', lines 443-445
OptE ==
    /\ pc = "getopt"
    /\ new_end_cmd_semantic' = 1
    /\ UNCHANGED doSendVars
    /\ UNCHANGED fsidVars
    /\ UNCHANGED <<pu, ct, pc, clone_sources, root_id, parent_root_id,
                   full_send, snapshot_parent, send_flags, args, i, ret,
                   exit_status, sends, searches>>

\* case GETOPT_VAL_SEND_NO_DATA, lines 527-529
OptNoData ==
    /\ pc = "getopt"
    /\ send_flags' = send_flags \cup {"NO_FILE_DATA"}
    /\ UNCHANGED doSendVars
    /\ UNCHANGED fsidVars
    /\ UNCHANGED <<pu, ct, pc, clone_sources, root_id, parent_root_id,
                   full_send, new_end_cmd_semantic, snapshot_parent, args, i,
                   ret, exit_status, sends, searches>>

\* case 'c', lines 446-490
OptC(path, ro, ok) ==
    LET rid == get_root_id(path, root_id)
        add == add_clone_source(clone_sources, rid.root_id, ok)
    IN  /\ pc = "getopt"
        /\ Len(clone_sources) < MaxCloneOpts
        /\ root_id' = rid.root_id
        /\ IF path = 0 THEN Out(0 - ENOENT) /\ UNCHANGED <<clone_sources, full_send>>
           ELSE IF rid.ret < 0 THEN Out(rid.ret) /\ UNCHANGED <<clone_sources, full_send>>
           ELSE IF ro < 0 THEN Out(ro) /\ UNCHANGED <<clone_sources, full_send>>
           ELSE IF ro = 0 THEN Out(0 - EINVAL) /\ UNCHANGED <<clone_sources, full_send>>
           ELSE IF add.ret < 0
           THEN Out(add.ret) /\ clone_sources' = add.clone_sources
                /\ UNCHANGED full_send
           ELSE /\ clone_sources' = add.clone_sources
                /\ full_send' = 0
                /\ UNCHANGED <<pc, ret, exit_status>>
        /\ UNCHANGED doSendVars
        /\ UNCHANGED fsidVars
        /\ UNCHANGED <<pu, ct, parent_root_id, new_end_cmd_semantic,
                       snapshot_parent, send_flags, args, i, sends, searches>>

\* case 'p', lines 498-522
OptP(path, ro) ==
    /\ pc = "getopt"
    /\ IF snapshot_parent # 0 THEN Out(1) /\ UNCHANGED <<snapshot_parent, full_send>>
       ELSE IF path = 0 THEN Out(0 - ENOENT) /\ UNCHANGED <<snapshot_parent, full_send>>
       ELSE /\ snapshot_parent' = path
            /\ IF ro < 0 THEN Out(ro) /\ UNCHANGED full_send
               ELSE IF ro = 0 THEN Out(0 - EINVAL) /\ UNCHANGED full_send
               ELSE full_send' = 0 /\ UNCHANGED <<pc, ret, exit_status>>
    /\ UNCHANGED doSendVars
    /\ UNCHANGED fsidVars
    /\ UNCHANGED <<pu, ct, clone_sources, root_id, parent_root_id,
                   new_end_cmd_semantic, send_flags, args, i, sends, searches>>

\* case 'i', '?' and default, lines 523-534
OptInvalid ==
    /\ pc = "getopt"
    /\ Out(1)
    /\ UNCHANGED doSendVars
    /\ UNCHANGED fsidVars
    /\ UNCHANGED <<pu, ct, clone_sources, root_id, parent_root_id, full_send,
                   new_end_cmd_semantic, snapshot_parent, send_flags, args, i,
                   sends, searches>>

\* lines 538-539: no subvolume named, usage() exits
Usage ==
    /\ pc = "getopt"
    /\ pc' = "exit"
    /\ exit_status' = 1
    /\ UNCHANGED doSendVars
    /\ UNCHANGED fsidVars
    /\ UNCHANGED <<pu, ct, clone_sources, root_id, parent_root_id, full_send,
                   new_end_cmd_semantic, snapshot_parent, send_flags, args, i,
                   ret, sends, searches>>

\* lines 557-585: the first subvolume, and the root id of the -p parent
FirstArg(first, ok) ==
    LET rid == get_root_id(snapshot_parent, parent_root_id)
        add == add_clone_source(clone_sources, rid.root_id, ok)
    IN  /\ pc = "getopt"
        /\ args' = <<first>>
        /\ IF first = 0
           THEN Out(0 - ENOENT) /\ UNCHANGED <<parent_root_id, clone_sources, i>>
           ELSE IF snapshot_parent = 0
           THEN /\ pc' = "validate"
                /\ i' = 1
                /\ UNCHANGED <<parent_root_id, clone_sources, ret, exit_status>>
           ELSE /\ parent_root_id' = rid.root_id
                /\ IF rid.ret < 0 THEN Out(rid.ret) /\ UNCHANGED <<clone_sources, i>>
                   ELSE IF add.ret < 0
                   THEN Out(add.ret) /\ clone_sources' = add.clone_sources
                        /\ UNCHANGED i
                   ELSE /\ clone_sources' = add.clone_sources
                        /\ pc' = "validate"
                        /\ i' = 1
                        /\ UNCHANGED <<ret, exit_status>>
        /\ UNCHANGED doSendVars
        /\ UNCHANGED fsidVars
        /\ UNCHANGED <<pu, ct, root_id, full_send, new_end_cmd_semantic,
                       snapshot_parent, send_flags, sends, searches>>

\* lines 611-622 left out: the arguments not checked for being read-only
CheckedWithoutRo(a, mnt, ro) ==
    IF a = 0 THEN 0 - ENOENT
    ELSE IF mnt = "error" THEN 0 - ENOENT
    ELSE IF mnt = "other" THEN 0 - EINVAL
    ELSE 0

\* lines 588-622: the checks of one argument, a: what realpath gives (0:
\* nothing), mnt: what find_mount_root and the strcmp of line 606 give, ro:
\* what is_subvol_ro returns; the value is what ret is after them
Checked(a, mnt, ro) ==
    IF a = 0 THEN 0 - ENOENT
    ELSE IF mnt = "error" THEN 0 - ENOENT
    ELSE IF mnt = "other" THEN 0 - EINVAL
    ELSE IF ro < 0 THEN ro
    ELSE IF ro = 0 THEN 0 - EINVAL
    ELSE 0

\* one round of the loop of lines 587-623 over argv[i]; an argument is read
\* here for the first time unless it is the first one
Validate(a, mnt, ro) ==
    /\ pc = "validate"
    /\ IF i \in 1..Len(args) THEN a = args[i] ELSE Len(args) < MaxArgs
    /\ args' = IF i \in 1..Len(args) THEN args ELSE Append(args, a)
    /\ IF Checked(a, mnt, ro) < 0
       THEN Out(Checked(a, mnt, ro)) /\ UNCHANGED i
       ELSE i' = i + 1 /\ UNCHANGED <<pc, ret, exit_status>>
    /\ UNCHANGED doSendVars
    /\ UNCHANGED fsidVars
    /\ UNCHANGED <<pu, ct, clone_sources, root_id, parent_root_id, full_send,
                   new_end_cmd_semantic, snapshot_parent, send_flags, sends,
                   searches>>

\* line 587 with i = argc, line 628 with i = optind; the uuid tree is searched
\* on demand, by the loop that starts here: p and c are what it will read,
\* which is nothing in a full send and else the entries of root_id and of
\* the clone sources (root_id, where set, is one of them)
EndValidate(p, c) ==
    /\ pc = "validate"
    /\ i = Len(args) + 1
    /\ pc' = "loop"
    /\ i' = 1
    /\ pu' = p
    /\ ct' = c
    /\ UNCHANGED doSendVars
    /\ UNCHANGED fsidVars
    /\ UNCHANGED <<clone_sources, root_id, parent_root_id, full_send,
                   new_end_cmd_semantic, snapshot_parent, send_flags, args,
                   ret, exit_status, sends, searches>>

\* lines 628-651: the head of the loop and the parent determination; trap:
\* the signed overflow of line 138, where the search has one, aborts
FindParent(trap) ==
    LET r == find_good_parent(root_id, clone_sources, parent_root_id)
    IN  /\ pc = "loop"
        /\ i <= Len(args)
        /\ IF NeedsSearch(full_send, parent_root_id)
           THEN IF trap /\ NegationOverflows(root_id, clone_sources)
                THEN /\ pc' = "abort"
                     /\ UNCHANGED <<searches, parent_root_id, ret, exit_status>>
                ELSE /\ searches' = Append(searches,
                            [item |-> i, target |-> root_id,
                             sources |-> clone_sources, ret |-> r.ret,
                             found |-> r.found])
                     /\ parent_root_id' = r.found
                     /\ IF r.ret < 0 THEN Out(r.ret)
                        ELSE pc' = "send" /\ UNCHANGED <<ret, exit_status>>
           ELSE /\ pc' = "send"
                /\ UNCHANGED <<searches, parent_root_id, ret, exit_status>>
        /\ UNCHANGED doSendVars
        /\ UNCHANGED fsidVars
        /\ UNCHANGED <<pu, ct, clone_sources, root_id, full_send,
                       new_end_cmd_semantic, snapshot_parent, send_flags,
                       args, i, sends>>

\* never: the ioctl given the array without its newest entry
IoSendWithoutLast ==
    [item |-> i, subvol |-> args[i], parent_root |-> parent_root_id,
     clone_sources |-> SubSeq(clone_sources, 1, Len(clone_sources) - 1),
     flags |-> IoSendFlags(send_flags,
                   IsFirstSubvol(new_end_cmd_semantic, i),
                   IsLastSubvol(new_end_cmd_semantic, i, Len(args)))]

\* the arguments of the ioctl of line 295 for argv[i]
IoSend ==
    [item |-> i, subvol |-> args[i], parent_root |-> parent_root_id,
     clone_sources |-> clone_sources,
     flags |-> IoSendFlags(send_flags,
                   IsFirstSubvol(new_end_cmd_semantic, i),
                   IsLastSubvol(new_end_cmd_semantic, i, Len(args)))]

\* lines 653-685 without lines 656-660
SendItemUnchecked(ro, outcome, ok) ==
    LET add == add_clone_source(clone_sources, root_id, ok)
    IN  /\ pc = "send"
        /\ IF ro < 0 THEN Out(ro) /\ UNCHANGED <<sends, clone_sources, parent_root_id, i>>
           ELSE IF outcome = "setup_fail"
           THEN Out(0 - ENOMEM) /\ UNCHANGED <<sends, clone_sources, parent_root_id, i>>
           ELSE /\ sends' = Append(sends, IoSend)
                /\ IF outcome = "ioctl_fail"
                   THEN Out(0 - EINVAL) /\ UNCHANGED <<clone_sources, parent_root_id, i>>
                   ELSE IF outcome = "dump_fail"
                   THEN /\ pc' = "exit"
                        /\ exit_status' = EIO
                        /\ UNCHANGED <<ret, clone_sources, parent_root_id, i>>
                   ELSE IF full_send = 0 /\ add.ret < 0
                   THEN Out(add.ret) /\ clone_sources' = add.clone_sources
                        /\ UNCHANGED <<parent_root_id, i>>
                   ELSE /\ clone_sources' =
                              IF full_send = 0 THEN add.clone_sources
                              ELSE clone_sources
                        /\ parent_root_id' = NextParent(parent_root_id)
                        /\ i' = i + 1
                        /\ pc' = "loop"
                        /\ UNCHANGED <<ret, exit_status>>
        /\ UNCHANGED doSendVars
        /\ UNCHANGED fsidVars
        /\ UNCHANGED <<pu, ct, root_id, full_send, new_end_cmd_semantic,
                       snapshot_parent, send_flags, args, searches>>

\* lines 653-685: the read-only check, do_send, the new clone source
SendItem(ro, outcome, ok) ==
    LET add == add_clone_source(clone_sources, root_id, ok)
    IN  /\ pc = "send"
        /\ IF ro < 0 THEN Out(ro) /\ UNCHANGED <<sends, clone_sources, parent_root_id, i>>
           ELSE IF ro = 0
           THEN Out(0 - EINVAL) /\ UNCHANGED <<sends, clone_sources, parent_root_id, i>>
           ELSE IF outcome = "setup_fail"
           THEN Out(0 - ENOMEM) /\ UNCHANGED <<sends, clone_sources, parent_root_id, i>>
           ELSE /\ sends' = Append(sends, IoSend)
                /\ IF outcome = "ioctl_fail"
                   THEN Out(0 - EINVAL) /\ UNCHANGED <<clone_sources, parent_root_id, i>>
                   ELSE IF outcome = "dump_fail"
                   THEN /\ pc' = "exit"
                        /\ exit_status' = EIO
                        /\ UNCHANGED <<ret, clone_sources, parent_root_id, i>>
                   ELSE IF full_send = 0 /\ add.ret < 0
                   THEN Out(add.ret) /\ clone_sources' = add.clone_sources
                        /\ UNCHANGED <<parent_root_id, i>>
                   ELSE /\ clone_sources' =
                              IF full_send = 0 THEN add.clone_sources
                              ELSE clone_sources
                        /\ parent_root_id' = NextParent(parent_root_id)
                        /\ i' = i + 1
                        /\ pc' = "loop"
                        /\ UNCHANGED <<ret, exit_status>>
        /\ UNCHANGED doSendVars
        /\ UNCHANGED fsidVars
        /\ UNCHANGED <<pu, ct, root_id, full_send, new_end_cmd_semantic,
                       snapshot_parent, send_flags, args, searches>>

\* line 628 as "i < argc - 1": the loop left one item early
FinishEarly ==
    /\ pc = "loop"
    /\ i >= Len(args)
    /\ Out(0)
    /\ UNCHANGED doSendVars
    /\ UNCHANGED fsidVars
    /\ UNCHANGED <<pu, ct, clone_sources, root_id, parent_root_id, full_send,
                   new_end_cmd_semantic, snapshot_parent, send_flags, args, i,
                   sends, searches>>

\* line 628 with i = argc, lines 688-698
Finish ==
    /\ pc = "loop"
    /\ i > Len(args)
    /\ Out(0)
    /\ UNCHANGED doSendVars
    /\ UNCHANGED fsidVars
    /\ UNCHANGED <<pu, ct, clone_sources, root_id, parent_root_id, full_send,
                   new_end_cmd_semantic, snapshot_parent, send_flags, args, i,
                   sends, searches>>

\* An input is drawn where the code reads it: the result of a call that is
\* not made is not drawn.
GetoptStep ==
    \/ OptE
    \/ OptNoData
    \/ \E path \in Paths :
       \E ro \in (IF path = 0 THEN {1} ELSE RoResults) :
       \E ok \in (IF path # 0 /\ ro = 1 THEN BOOLEAN ELSE {TRUE}) :
          OptC(path, ro, ok)
    \/ \E path \in (IF snapshot_parent # 0 THEN {0} ELSE Paths) :
       \E ro \in (IF path = 0 THEN {1} ELSE RoResults) :
          OptP(path, ro)
    \/ OptInvalid
    \/ Usage
    \/ \E first \in Paths :
       \E ok \in (IF first # 0 /\ snapshot_parent # 0 THEN BOOLEAN ELSE {TRUE}) :
          FirstArg(first, ok)

ValidateStep ==
    \/ \E a \in (IF i \in 1..Len(args) THEN {args[i]} ELSE Paths) :
       \E mnt \in (IF a = 0 THEN {"same"} ELSE MountResults) :
       \E ro \in (IF a # 0 /\ mnt = "same" THEN RoResults ELSE {1}) :
          Validate(a, mnt, ro)
    \/ \E p \in (IF pc = "validate" /\ i = Len(args) + 1
                 THEN ReadParentUuids(NSub, IF full_send = 0
                                            THEN Range(clone_sources) ELSE {})
                 ELSE {}) :
          EndValidate(p, Ctransids(NSub))

LoopStep ==
    \/ \E trap \in BOOLEAN : FindParent(trap)
    \/ \E ro \in RoResults :
       \E outcome \in (IF ro = 1 THEN SendOutcomes ELSE {"ok"}) :
       \E ok \in (IF ro = 1 /\ outcome = "ok" /\ full_send = 0
                  THEN BOOLEAN ELSE {TRUE}) :
          SendItem(ro, outcome, ok)
    \/ Finish

Next == GetoptStep \/ ValidateStep \/ LoopStep

Spec == Init /\ [][Next]_vars

(***************************************************************************)
(* One round of the loop of cmd_send, entered with any root_id and any     *)
(* clone sources: find_good_parent exercised over all its inputs.          *)
(***************************************************************************)
RECURSIVE SeqsUpTo(_, _)
SeqsUpTo(S, n) ==
    IF n = 0 THEN {<<>>}
    ELSE LET shorter == SeqsUpTo(S, n - 1)
         IN  shorter \cup {Append(q, x) : q \in shorter, x \in S}

\* a clone source is a subvolume or 0, the root_id that line 678 adds where
\* no -c option has set it; find_good_parent reads the parent_uuid of its
\* target and of every clone source, and, where the target's parent is not itself a clone source
\* (line 136), the ctransid of that parent and of the clone sources that
\* record the same parent
InitSearch ==
    /\ root_id \in 0..NSearchSub
    /\ clone_sources \in SeqsUpTo(0..NSearchSub, MaxSources)
    /\ pu \in ReadParentUuids(NSearchSub, {root_id} \cup Range(clone_sources))
    /\ ct \in ReadCtransids(NSearchSub,
                 IF root_id # 0 /\ pu[root_id] # 0
                    /\ (0 - pu[root_id]) \notin Range(clone_sources)
                 THEN {0 - pu[root_id]} \cup
                      {c \in Range(clone_sources) \ {0} :
                           pu[c] = pu[root_id]}
                 ELSE {})
    /\ pc = "loop"
    /\ parent_root_id = 0
    /\ full_send = 0
    /\ new_end_cmd_semantic = 0
    /\ snapshot_parent = 0
    /\ send_flags = {}
    /\ args = <<root_id>>
    /\ i = 1
    /\ ret = 0
    /\ exit_status = 0 - 1
    /\ sends = <<>>
    /\ searches = <<>>
    /\ DoSendIdle
    /\ FsidIdle

\* the round of the loop, its send succeeding
SearchStep ==
    \/ \E trap \in BOOLEAN : FindParent(trap)
    \/ SendItem(1, "ok", TRUE)

SpecSearch == InitSearch /\ [][SearchStep]_vars

(***************************************************************************)
(* One call of do_send: the ioctl, in which the kernel writes the stream   *)
(* to the pipe, and dump_thread, which copies the pipe to dump_fd.         *)
(***************************************************************************)
\* bound: bytes of a stream
MaxBytes == 3
\* bound: capacity of the pipe
MaxPipe == 3
\* bound: items of a batch whose calls of do_send are followed step by step
MaxSendItems == 2
\* sizeof(buf) in dump_thread, scaled down
BufSize == 2

Min(a, b) == IF a <= b THEN a ELSE b

\* the stream of n bytes: the k-th byte is k
Stream(n) == [k \in 1..n |-> k]

\* the outcomes of lines 260-285: openat, pipe, pthread_create
SetupOutcomes == {"open_fail", "pipe_fail", "thread_fail", "ok"}

\* never: a read that takes more than sizeof(buf) bytes
ReadResultsWhole ==
    IF pipe # <<>> THEN (1..Len(pipe)) \cup {0 - 1}
    ELSE IF wfds = {} THEN {0, 0 - 1}
    ELSE IF ~rfd THEN {0 - 1}
    ELSE {}

\* what read(send_fd, buf, sizeof(buf)) can return (-1: an error); the
\* empty set where it blocks.  Once do_send has closed the descriptor under
\* the running thread, a read that was entered before still reads the pipe
\* and a read entered after fails.
ReadResults ==
    IF pipe # <<>> THEN (1..Min(BufSize, Len(pipe))) \cup {0 - 1}
    ELSE IF wfds = {} THEN {0, 0 - 1}
    ELSE IF ~rfd THEN {0 - 1}
    ELSE {}

\* what write(fd, buf + pos, size - pos) can return
WriteResults(size) == (1..size) \cup {0, 0 - 1}

\* line 232 taking a short read for the end of the stream
IsEofShort(readed) == readed < BufSize

\* line 232: if (!readed)
IsEof(readed) == readed = 0

\* line 198 without "+ pos"
ChunkFromStart(b, p, n) == SubSeq(b, 1, n)

\* line 198: the n bytes written from buf + pos
Chunk(b, p, n) == SubSeq(b, p + 1, p + n)

\* lines 310-311 left out
AfterCloseKept(w) == w

\* lines 310-311: close(pipefd[1])
AfterClose(w) == w \ {"pipefd1"}

\* the process runs and is in do_send
Running == pc = "send"

\* cmd_send has come to the do_send of its first item: in a full send of a
\* batch of n, or in the incremental send of a batch of n that follows
\* "-c 2", subvolume 2 being a snapshot of subvolume 1
InitSend ==
    /\ \E n \in 1..MaxSendItems : args = [k \in 1..n |-> 1]
    /\ ct = Ctransids(NSub)
    /\ \/ /\ full_send = 1
          /\ pu = Unread(NSub)
          /\ clone_sources = <<>>
          /\ root_id = 0
          /\ parent_root_id = 0
       \/ /\ full_send = 0
          /\ pu = [r \in 1..NSub |-> IF r = 2 THEN Uuid(1) ELSE 0]
          /\ clone_sources = <<2>>
          /\ root_id = 2
          /\ parent_root_id = 2
    /\ pc = "send"
    /\ new_end_cmd_semantic = 0
    /\ snapshot_parent = 0
    /\ send_flags = {}
    /\ i = 1
    /\ ret = 0
    /\ exit_status = 0 - 1
    /\ sends = <<>>
    /\ searches = <<>>
    /\ \E cap \in 1..MaxPipe, n \in 0..MaxBytes :
          ds = [do_send_pc |-> "setup", do_send_ret |-> 0, dump_pc |-> "none",
                dump_ret |-> 0, buf |-> <<>>, pos |-> 0, pipe |-> <<>>,
                pipe_cap |-> cap, wfds |-> {}, rfd |-> FALSE,
                todo |-> Stream(n), produced |-> <<>>, sink |-> <<>>,
                cancel_requests |-> 0]
    /\ FsidIdle

\* lines 260-285: openat, pipe, pthread_create
DoSetup(outcome) ==
    /\ Running
    /\ do_send_pc = "setup"
    /\ ds' = IF outcome = "open_fail"
             THEN [ds EXCEPT !.do_send_ret = 0 - ENOENT, !.do_send_pc = "out"]
             ELSE IF outcome = "pipe_fail"
             THEN [ds EXCEPT !.do_send_ret = 0 - ENOMEM, !.do_send_pc = "out"]
             ELSE IF outcome = "thread_fail"
             THEN [ds EXCEPT !.rfd = TRUE, !.wfds = {"pipefd1"},
                             !.do_send_ret = 0 - ENOMEM, !.do_send_pc = "out"]
             ELSE [ds EXCEPT !.rfd = TRUE, !.wfds = {"pipefd1"},
                             !.dump_pc = "read", !.do_send_pc = "call"]
    /\ UNCHANGED <<pc, exit_status, sends>>
    /\ UNCHANGED fsidVars
    /\ UNCHANGED cmdVars

\* lines 287-295: the ioctl is entered; the kernel holds io_send.send_fd
IoctlEnter ==
    /\ Running
    /\ do_send_pc = "call"
    /\ sends' = Append(sends, IoSend)
    /\ ds' = [ds EXCEPT !.wfds = wfds \cup {"ioctl"}, !.do_send_pc = "ioctl"]
    /\ UNCHANGED <<pc, exit_status>>
    /\ UNCHANGED fsidVars
    /\ UNCHANGED cmdVars

\* inside the ioctl: the kernel writes n bytes of the stream to the pipe;
\* it blocks while the pipe is full
KernelWrite(n) ==
    /\ Running
    /\ do_send_pc = "ioctl"
    /\ n \in 1..Min(Len(todo), pipe_cap - Len(pipe))
    /\ ds' = [ds EXCEPT !.pipe = pipe \o SubSeq(todo, 1, n),
                        !.produced = produced \o SubSeq(todo, 1, n),
                        !.todo = SubSeq(todo, n + 1, Len(todo))]
    /\ UNCHANGED <<pc, exit_status, sends>>
    /\ UNCHANGED fsidVars
    /\ UNCHANGED cmdVars

\* lines 295-303: the ioctl returns; failed: with an error, at any moment
IoctlReturn(failed) ==
    /\ Running
    /\ do_send_pc = "ioctl"
    /\ failed \/ todo = <<>>
    /\ ds' = IF failed
             THEN [ds EXCEPT !.wfds = wfds \ {"ioctl"},
                             !.do_send_ret = 0 - EINVAL, !.do_send_pc = "out"]
             ELSE [ds EXCEPT !.wfds = wfds \ {"ioctl"},
                             !.do_send_ret = 0, !.do_send_pc = "close"]
    /\ UNCHANGED <<pc, exit_status, sends>>
    /\ UNCHANGED fsidVars
    /\ UNCHANGED cmdVars

\* lines 310-311
ClosePipeWrite ==
    /\ Running
    /\ do_send_pc = "close"
    /\ ds' = [ds EXCEPT !.wfds = AfterClose(wfds), !.do_send_pc = "join"]
    /\ UNCHANGED <<pc, exit_status, sends>>
    /\ UNCHANGED fsidVars
    /\ UNCHANGED cmdVars

\* lines 313-326: pthread_join returns when dump_thread has returned
Join ==
    /\ Running
    /\ do_send_pc = "join"
    /\ dump_pc = "done"
    /\ ds' = [ds EXCEPT !.dump_pc = "joined", !.do_send_ret = dump_ret,
                        !.do_send_pc = "out"]
    /\ UNCHANGED <<pc, exit_status, sends>>
    /\ UNCHANGED fsidVars
    /\ UNCHANGED cmdVars

\* lines 328-335: the descriptors are closed and do_send returns
DoSendOut ==
    /\ Running
    /\ do_send_pc = "out"
    /\ ds' = [ds EXCEPT !.rfd = FALSE, !.wfds = wfds \ {"pipefd1"},
                        !.do_send_pc = "returned"]
    /\ UNCHANGED <<pc, exit_status, sends>>
    /\ UNCHANGED fsidVars
    /\ UNCHANGED cmdVars

\* dump_thread, lines 224-236 and 241-246: one read; readed is its result
DumpRead(readed) ==
    /\ Running
    /\ dump_pc = "read"
    /\ readed \in ReadResults
    /\ IF readed < 0
       THEN /\ ds' = [ds EXCEPT !.dump_ret = 0 - EIO]
            /\ pc' = "exit"
            /\ exit_status' = EIO
       ELSE IF IsEof(readed)
       THEN /\ ds' = [ds EXCEPT !.dump_ret = 0, !.dump_pc = "done",
                                !.buf = SubSeq(pipe, 1, readed),
                                !.pipe = SubSeq(pipe, readed + 1, Len(pipe))]
            /\ UNCHANGED <<pc, exit_status>>
       ELSE /\ ds' = [ds EXCEPT !.buf = SubSeq(pipe, 1, readed),
                                !.pipe = SubSeq(pipe, readed + 1, Len(pipe)),
                                !.pos = 0, !.dump_pc = "write"]
            /\ UNCHANGED <<pc, exit_status>>
    /\ UNCHANGED sends
    /\ UNCHANGED fsidVars
    /\ UNCHANGED cmdVars

\* never: write_buf going on after a write that failed or took nothing
WriteFailedNever(written) == FALSE

\* write_buf, lines 199 and 204: if (ret < 0) ... if (!ret) ...
WriteFailed(written) == written <= 0

\* dump_thread, lines 237-246, and write_buf, lines 197-210: one write;
\* written is its result
DumpWrite(written) ==
    /\ Running
    /\ dump_pc = "write"
    /\ written \in WriteResults(Len(buf) - pos)
    /\ IF WriteFailed(written)
       THEN /\ ds' = [ds EXCEPT !.dump_ret = 0 - EIO]
            /\ pc' = "exit"
            /\ exit_status' = EIO
       ELSE /\ ds' = [ds EXCEPT !.sink = sink \o Chunk(buf, pos, written),
                                !.pos = pos + written,
                                !.dump_pc = IF pos + written < Len(buf)
                                            THEN "write" ELSE "read"]
            /\ UNCHANGED <<pc, exit_status>>
    /\ UNCHANGED sends
    /\ UNCHANGED fsidVars
    /\ UNCHANGED cmdVars

\* SIGINT arrives while the ioctl runs: cmd_send and do_send install no
\* handler, the default action terminates the process at once
Interrupt ==
    /\ Running
    /\ do_send_pc = "ioctl"
    /\ pc' = "killed"
    /\ UNCHANGED <<exit_status, sends>>
    /\ UNCHANGED doSendVars
    /\ UNCHANGED fsidVars
    /\ UNCHANGED cmdVars

\* cmd_send, lines 653-672, for an item after the first: is_subvol_ro and
\* the call of do_send, in which the kernel will write a stream of n bytes
CallDoSend(ro, n) ==
    /\ pc = "send"
    /\ do_send_pc = "idle"
    /\ IF ro < 0 THEN Out(ro) /\ UNCHANGED ds
       ELSE IF ro = 0 THEN Out(0 - EINVAL) /\ UNCHANGED ds
       ELSE /\ ds' = [ds EXCEPT !.do_send_pc = "setup", !.do_send_ret = 0,
                                !.dump_pc = "none", !.dump_ret = 0,
                                !.buf = <<>>, !.pos = 0, !.pipe = <<>>,
                                !.todo = Stream(n)]
            /\ UNCHANGED <<pc, ret, exit_status>>
    /\ UNCHANGED fsidVars
    /\ UNCHANGED <<pu, ct, clone_sources, root_id, parent_root_id, full_send,
                   new_end_cmd_semantic, snapshot_parent, send_flags, args, i,
                   sends, searches>>

\* never: taking a failed do_send for a success
DoSendFailedNever(r) == FALSE

\* cmd_send, lines 672-673: if (ret < 0) goto out
DoSendFailed(r) == r < 0

\* cmd_send, lines 671-685: do_send has returned; ok: realloc succeeded
DoSendReturn(ok) ==
    LET add == add_clone_source(clone_sources, root_id, ok)
    IN  /\ pc = "send"
        /\ do_send_pc = "returned"
        /\ ds' = [ds EXCEPT !.do_send_pc = "idle"]
        /\ IF DoSendFailed(do_send_ret)
           THEN Out(do_send_ret) /\ UNCHANGED <<clone_sources, parent_root_id, i>>
           ELSE IF full_send = 0 /\ add.ret < 0
           THEN Out(add.ret) /\ clone_sources' = add.clone_sources
                /\ UNCHANGED <<parent_root_id, i>>
           ELSE /\ clone_sources' =
                      IF full_send = 0 THEN add.clone_sources
                      ELSE clone_sources
                /\ parent_root_id' = NextParent(parent_root_id)
                /\ i' = i + 1
                /\ pc' = "loop"
                /\ UNCHANGED <<ret, exit_status>>
        /\ UNCHANGED fsidVars
        /\ UNCHANGED <<pu, ct, root_id, full_send, new_end_cmd_semantic,
                       snapshot_parent, send_flags, args, sends, searches>>

\* the steps of cmd_send between two calls of do_send
CmdStep ==
    \/ \E ok \in (IF ~DoSendFailed(do_send_ret) /\ full_send = 0
                  THEN BOOLEAN ELSE {TRUE}) : DoSendReturn(ok)
    \/ FindParent(FALSE)
    \/ \E ro \in RoResults :
       \E n \in (IF ro = 1 THEN 0..MaxBytes ELSE {0}) : CallDoSend(ro, n)
    \/ Finish

\* the steps of the thread that called do_send
MainStep ==
    \/ \E outcome \in SetupOutcomes : DoSetup(outcome)
    \/ IoctlEnter
    \/ ClosePipeWrite
    \/ Join
    \/ DoSendOut

\* the steps of the kernel inside the ioctl
KernelStep ==
    \/ \E n \in 1..Min(Len(todo), pipe_cap - Len(pipe)) : KernelWrite(n)
    \/ \E failed \in BOOLEAN : IoctlReturn(failed)

\* the steps of dump_thread
DumpStep ==
    \/ \E readed \in ReadResults : DumpRead(readed)
    \/ \E written \in WriteResults(Len(buf) - pos) : DumpWrite(written)

SendNext == MainStep \/ KernelStep \/ DumpStep \/ Interrupt \/ CmdStep

SpecSend == InitSend /\ [][SendNext]_vars

\* a thread that can run does run: the scheduler starves none of them
SpecSendLive ==
    /\ InitSend
    /\ [][SendNext]_vars
    /\ WF_vars(MainStep)
    /\ WF_vars(KernelStep)
    /\ WF_vars(DumpStep)
    /\ WF_vars(CmdStep)


(***************************************************************************)
(* The calls on the table of seen fsids.                                   *)
(***************************************************************************)
\* the state of cmd_send and of do_send
sendVars == <<pu, ct, pc, clone_sources, root_id, parent_root_id, full_send,
              new_end_cmd_semantic, snapshot_parent, send_flags, args, i,
              ret, exit_status, sends, searches, ds>>

\* a call of is_seen_fsid
IsSeenFsid(fsid) ==
    /\ fsid_call' = [fn |-> "is_seen_fsid", fsid |-> fsid,
                     ret |-> is_seen_fsid(fsid)]
    /\ UNCHANGED <<seen_fsid_hash, added_fsids>>
    /\ UNCHANGED sendVars

\* a call of add_seen_fsid
AddSeenFsid(fsid, ok) ==
    LET r == add_seen_fsid(fsid, ok)
    IN  /\ seen_fsid_hash' = r.seen_fsid_hash
        /\ added_fsids' = IF r.ret = 0 THEN added_fsids \cup {fsid}
                          ELSE added_fsids
        /\ fsid_call' = [fn |-> "add_seen_fsid", fsid |-> fsid, ret |-> r.ret]
        /\ UNCHANGED sendVars

\* free_seen_fsid, lines 101-116
FreeSeenFsid ==
    /\ seen_fsid_hash' = [slot \in Slots |-> <<>>]
    /\ added_fsids' = {}
    /\ fsid_call' = [fn |-> "free_seen_fsid", fsid |-> <<>>, ret |-> 0]
    /\ UNCHANGED sendVars

FsidNext ==
    \/ \E fsid \in Fsids : IsSeenFsid(fsid)
    \/ \E fsid \in Fsids, ok \in BOOLEAN : AddSeenFsid(fsid, ok)
    \/ FreeSeenFsid

SpecFsid == Init /\ [][FsidNext]_vars

(***************************************************************************)
(* Properties                                                              *)
(***************************************************************************)
\* the root id of the subvolume whose uuid subvolume t records as its
\* parent_uuid; 0 where t is no subvolume or no subvolume has that uuid
RecordedAncestor(t) ==
    IF t \in Subvols /\ pu[t] # 0 /\ (0 - pu[t]) \in Subvols
    THEN 0 - pu[t] ELSE 0

OmitsHeader(s) == "OMIT_STREAM_HEADER" \in s.flags

OmitsEndCmd(s) == "OMIT_END_CMD" \in s.flags

\* the mathematical distance of two transaction ids
AbsDiff(a, b) == IF a >= b THEN a - b ELSE b - a

\* C1: with -e, the ioctl for an item omits the stream header iff the item
\* is not the first of the batch, and omits the end command iff the item is
\* not the last of the batch.
C1_ExtendedFraming ==
    new_end_cmd_semantic = 1 =>
        \A k \in 1..Len(sends) :
            /\ OmitsHeader(sends[k]) <=> (sends[k].item # 1)
            /\ OmitsEndCmd(sends[k]) <=> (sends[k].item # Len(args))

\* a batch of three sent with -e: (false, true), (true, true), (true, false)
C1_Witness ==
    /\ new_end_cmd_semantic = 1
    /\ Len(args) = 3
    /\ Len(sends) = 3
    /\ ~OmitsHeader(sends[1]) /\ OmitsEndCmd(sends[1])
    /\ OmitsHeader(sends[2]) /\ OmitsEndCmd(sends[2])
    /\ OmitsHeader(sends[3]) /\ ~OmitsEndCmd(sends[3])

\* C2: without -e, no ioctl omits the stream header or the end command,
\* whatever the position of its item in the batch.
C2_LegacyFraming ==
    new_end_cmd_semantic = 0 =>
        \A k \in 1..Len(sends) :
            ~OmitsHeader(sends[k]) /\ ~OmitsEndCmd(sends[k])

\* a batch of three sent without -e
C2_Witness ==
    /\ new_end_cmd_semantic = 0
    /\ Len(args) = 3
    /\ Len(sends) = 3
    /\ \A k \in 1..3 : sends[k].item = k /\ ~OmitsHeader(sends[k])
                       /\ ~OmitsEndCmd(sends[k])

\* C3: a search whose target records as its parent a subvolume that is a
\* clone source succeeds and finds exactly that subvolume, whatever else
\* the clone sources hold.
C3_ExactMatch ==
    \A k \in 1..Len(searches) :
        LET s == searches[k]
            a == RecordedAncestor(s.target)
        IN  (a # 0 /\ a \in Range(s.sources)) => (s.ret = 0 /\ s.found = a)

\* the recorded parent is found although a sibling of the target comes
\* before it among the clone sources
C3_Witness ==
    \E k \in 1..Len(searches) :
        LET s == searches[k]
            a == RecordedAncestor(s.target)
        IN  /\ a # 0
            /\ Len(s.sources) >= 2
            /\ s.sources[1] # a
            /\ RecordedAncestor(s.sources[1]) = a
            /\ a \in Range(s.sources)
            /\ s.found = a

\* C4: a successful search whose target's recorded parent A is no clone
\* source finds a clone source that records A as its parent too and whose
\* transaction id is at the least distance from A's among such clone
\* sources.  (Stated for the searches without signed overflow.)
C4_NearestSibling ==
    \A k \in 1..Len(searches) :
        LET s == searches[k]
            a == RecordedAncestor(s.target)
        IN  (/\ s.ret = 0
             /\ a # 0
             /\ a \notin Range(s.sources)
             /\ ~NegationOverflows(s.target, s.sources)) =>
                /\ s.found \in Range(s.sources)
                /\ RecordedAncestor(s.found) = a
                /\ \A c \in Range(s.sources) :
                      RecordedAncestor(c) = a =>
                          AbsDiff(ct[s.found], ct[a]) <= AbsDiff(ct[c], ct[a])

\* C5: a search whose target has no recorded parent among the subvolumes,
\* or whose target's recorded parent is no clone source and is the
\* recorded parent of no clone source, fails with ENOENT and leaves the
\* parent unset; cmd_send then leaves through "out" with that error and
\* no ioctl is issued for the item.
C5_NoSuitableParent ==
    \A k \in 1..Len(searches) :
        LET s == searches[k]
            a == RecordedAncestor(s.target)
        IN  (\/ a = 0
             \/ /\ a \notin Range(s.sources)
                /\ \A c \in Range(s.sources) : RecordedAncestor(c) # a) =>
                /\ s.ret = 0 - ENOENT
                /\ s.found = 0
                /\ parent_root_id = 0
                /\ pc = "out"
                /\ ret = 0 - ENOENT
                /\ \A j \in 1..Len(sends) : sends[j].item # s.item

\* the target has a recorded parent, there are clone sources, none of them
\* is that parent or records it: the search has failed
C5_Witness ==
    \E k \in 1..Len(searches) :
        LET s == searches[k]
            a == RecordedAncestor(s.target)
        IN  /\ a # 0
            /\ s.sources # <<>>
            /\ a \notin Range(s.sources)
            /\ \A c \in Range(s.sources) : RecordedAncestor(c) # a
            /\ s.ret = 0 - ENOENT
            /\ pc = "out"

\* C6: with neither -p nor -c (snapshot_parent is NULL and no -c has set
\* root_id), find_good_parent is never called and every ioctl has
\* parent_root = 0.
C6_FullSend ==
    (snapshot_parent = 0 /\ root_id = 0) =>
        /\ searches = <<>>
        /\ \A k \in 1..Len(sends) : sends[k].parent_root = 0

\* two subvolumes sent in full
C6_Witness ==
    /\ snapshot_parent = 0
    /\ root_id = 0
    /\ Len(sends) = 2
    /\ sends[2].item = 2
    /\ sends[2].parent_root = 0

\* C7: with -p, find_good_parent is not called for the first item and the
\* ioctl for the first item has the root id of the -p subvolume as
\* parent_root.
C7_ExplicitParent ==
    snapshot_parent # 0 =>
        /\ \A j \in 1..Len(searches) : searches[j].item # 1
        /\ \A k \in 1..Len(sends) :
              sends[k].item = 1 =>
                  sends[k].parent_root = get_root_id(snapshot_parent, 0).root_id

\* the first item is sent against the -p subvolume although a -c option was
\* given and the -p subvolume is not the item's recorded parent
C7_Witness ==
    /\ snapshot_parent # 0
    /\ root_id # 0
    /\ Len(sends) >= 1
    /\ sends[1].item = 1
    /\ sends[1].parent_root = snapshot_parent
    /\ RecordedAncestor(sends[1].subvol) # snapshot_parent

\* C8: in an incremental batch (full_send = 0) the ioctl for every item
\* after the first has as parent_root what a call of find_good_parent made
\* for that item, over the clone sources of that moment, has found.
C8_LaterItemsSearch ==
    full_send = 0 =>
        \A k \in 1..Len(sends) :
            sends[k].item > 1 =>
                \E j \in 1..Len(searches) :
                    /\ searches[j].item = sends[k].item
                    /\ searches[j].ret = 0
                    /\ searches[j].sources = sends[k].clone_sources
                    /\ searches[j].found = sends[k].parent_root

\* the second item of a batch with -p has been sent
C8_Witness ==
    /\ snapshot_parent # 0
    /\ full_send = 0
    /\ Len(sends) = 2
    /\ sends[2].item = 2
    /\ \E j \in 1..Len(searches) : searches[j].item = 2

\* C9: in an incremental batch (full_send = 0), when the loop comes to an
\* item after the first, the root id of the subvolume sent before it is
\* among the clone sources.
C9_SentBecomesCloneSource ==
    (pc = "loop" /\ i > 1 /\ full_send = 0) =>
        get_root_id(args[i - 1], 0).root_id \in Range(clone_sources)

\* C10: in an incremental batch of two subvolumes S1, S2, where S2 records
\* S1 as its parent, the ioctl for S2 has S1's root id among its clone
\* sources and as its parent_root.
C10_EndToEnd ==
    \A k \in 1..Len(sends) :
        (/\ full_send = 0
         /\ Len(args) = 2
         /\ sends[k].item = 2
         /\ RecordedAncestor(args[2]) = get_root_id(args[1], 0).root_id) =>
            /\ get_root_id(args[1], 0).root_id \in Range(sends[k].clone_sources)
            /\ sends[k].parent_root = get_root_id(args[1], 0).root_id

\* C11: no root id occurs twice among the clone sources, whatever -c
\* options, -p option and sent items have added.
C11_NoDuplicateSource ==
    \A j, k \in 1..Len(clone_sources) :
        clone_sources[j] = clone_sources[k] => j = k

IsPrefix(a, b) == Len(a) <= Len(b) /\ \A k \in 1..Len(a) : a[k] = b[k]

\* C12: in a step that does not end the session in failure the clone
\* sources stay as they are or get exactly one new element at the end: none
\* is removed or moved.
C12_SourcesOnlyGrow ==
    [][pc' \notin {"out", "exit", "abort"} =>
          /\ IsPrefix(clone_sources, clone_sources')
          /\ Len(clone_sources') <= Len(clone_sources) + 1]_vars

\* the array has grown by a -c option, by the -p parent and by a sent item
C12_Witness ==
    /\ pc = "loop"
    /\ i = 2
    /\ snapshot_parent # 0
    /\ Len(clone_sources) = 3
    /\ clone_sources[2] = snapshot_parent

\* C13: the items sent are the first items of the batch, one ioctl each, in
\* order, and none beyond the item the loop is at; cmd_send that ends with
\* ret # 0 reports an error, and it reports success only when an ioctl
\* has been made for every item of the batch.
C13_FailureAborts ==
    /\ \A k \in 1..Len(sends) : sends[k].item = k
    /\ Len(sends) <= i
    /\ (pc = "out" /\ ret # 0) => exit_status # 0
    /\ (pc \in {"out", "exit"} /\ exit_status = 0) =>
          (Len(args) >= 1 /\ Len(sends) = Len(args))

\* the second of three items was found writable after the first was sent:
\* the session has ended in error and no ioctl was made for items 2 and 3
C13_Witness ==
    /\ pc = "out"
    /\ ret = 0 - EINVAL
    /\ exit_status = 1
    /\ Len(args) = 3
    /\ i = 2
    /\ Len(sends) = 1

\* C14: the round of the loop whose is_subvol_ro does not return "read-only"
\* makes no ioctl and ends cmd_send in error, with EINVAL where the
\* subvolume is writable.
C14_WritableNotSent ==
    [][\A ro \in RoResults \ {1}, outcome \in SendOutcomes, ok \in BOOLEAN :
          SendItem(ro, outcome, ok) =>
              /\ sends' = sends
              /\ pc' = "out"
              /\ ret' < 0
              /\ (ro = 0 => ret' = 0 - EINVAL)
              /\ exit_status' = 1]_vars

\* the third item was found writable after two were sent
C14_Witness ==
    /\ pc = "out"
    /\ ret = 0 - EINVAL
    /\ Len(args) = 3
    /\ i = 3
    /\ Len(sends) = 2
    /\ sends[2].item = 2

DumpEnded == dump_pc \in {"done", "joined"}

\* C16: dump_thread returns 0 on the read that returns 0, having written to
\* dump_fd exactly the bytes it has read, which are all the bytes of the
\* pipe; after that it reads and writes nothing.
C16_PumpEndsAtEof ==
    /\ [](DumpEnded => (dump_ret = 0 /\ sink = produced /\ pipe = <<>>))
    /\ [][DumpEnded =>
             (sink' = sink /\ pipe' = pipe /\ buf' = buf /\ pc' # "exit")]_vars

\* the stream 1, 2, 3 and then the end of the stream
C16_Witness ==
    /\ dump_pc = "done"
    /\ dump_ret = 0
    /\ produced = <<1, 2, 3>>
    /\ sink = <<1, 2, 3>>

\* C17: the process does not end on a failure of dump_thread while the
\* ioctl is still running, and it then reports the failure of the transfer.
C17_PumpFailureWaits ==
    (pc = "exit" /\ sends # <<>>) =>
        (do_send_pc # "ioctl" /\ exit_status = EIO)

\* C18: dump_thread has been created when the ioctl is entered, and do_send
\* has not returned while dump_thread, once created, is not joined.
C18_DrainBrackets ==
    /\ sends # <<>> => dump_pc # "none"
    /\ do_send_pc = "returned" => dump_pc \in {"none", "joined"}

\* the call has failed, or the process has ended
SendFailed ==
    \/ pc \in {"exit", "killed"}
    \/ do_send_pc \in {"out", "returned"} /\ do_send_ret < 0

\* do_send has returned 0 with the whole stream in dump_fd
SendCompleted ==
    /\ do_send_pc = "returned"
    /\ do_send_ret = 0
    /\ dump_pc = "joined"
    /\ todo = <<>>
    /\ sink = produced

\* C19: the kernel is never blocked on a full pipe while dump_thread is not
\* running, and a call in which nothing fails comes to its end: the ioctl
\* returns, dump_thread sees the end of the stream, the join returns and
\* do_send returns 0, whatever the capacity of the pipe.
C19_NoPipeDeadlock ==
    /\ []~(/\ Running
           /\ do_send_pc = "ioctl"
           /\ todo # <<>>
           /\ Len(pipe) = pipe_cap
           /\ dump_pc \notin {"read", "write"})
    /\ <>(SendCompleted \/ SendFailed)

\* a stream longer than the capacity of the pipe has gone through
C19_Witness ==
    /\ SendCompleted
    /\ Len(produced) > pipe_cap
    /\ pipe_cap = MaxPipe

\* C20: the process that SIGINT ends while the ioctl runs has made a cancel
\* request to the kernel before.
C20_InterruptCancels ==
    pc = "killed" => cancel_requests > 0

\* cmd_send has returned or the process has ended
Terminal == pc \in {"out", "exit", "abort", "killed"}

\* cmd_send has returned 0
Done == pc = "out" /\ ret = 0

\* the part of C21 that the code and the claim agree on: Done is reached
\* only with one ioctl made for every item of the batch, in the order of
\* the command line; a round of the loop in which something fails ends the
\* session with an error; after the last round the session is Done; and in
\* a terminal state nothing is sent and the clone sources do not change.
SessionEnds ==
    /\ [](Done => /\ exit_status = 0
                  /\ Len(sends) = Len(args)
                  /\ \A k \in 1..Len(sends) :
                        sends[k].item = k /\ sends[k].subvol = args[k])
    /\ [][\A ro \in RoResults, outcome \in SendOutcomes, ok \in BOOLEAN :
             (/\ SendItem(ro, outcome, ok)
              /\ (ro # 1 \/ outcome # "ok" \/ (full_send = 0 /\ ~ok))) =>
                 (pc' \in {"out", "exit"} /\ exit_status' > 0)]_vars
    /\ [][(pc = "loop" /\ i > Len(args)) => Done']_vars
    /\ [][Terminal => (sends' = sends /\ clone_sources' = clone_sources
                       /\ pc' = pc)]_vars

\* C21 as stated: the session ends in Done if and only if one ioctl was
\* made for every item, in order, and every ioctl and its dump thread ended
\* in success: so the round of the last item, its do_send returning 0,
\* leaves the loop for Done.
C21_DoneIffAllSent ==
    /\ SessionEnds
    /\ [][\A ok \in BOOLEAN :
             (SendItem(1, "ok", ok) /\ i = Len(args)) =>
                 (pc' = "loop" /\ i' > Len(args))]_vars

\* C21 amended: ... and, in an incremental session, every add_clone_source
\* that follows a do_send succeeded.
C21_SessionOutcome ==
    /\ SessionEnds
    /\ [][\A ok \in BOOLEAN :
             (SendItem(1, "ok", ok) /\ i = Len(args)
              /\ (full_send = 0 => ok)) =>
                 (pc' = "loop" /\ i' > Len(args))]_vars

\* an incremental batch of two has ended in Done
C21_Witness ==
    /\ Done
    /\ full_send = 0
    /\ Len(args) = 2
    /\ Len(sends) = 2
    /\ sends[2].item = 2

\* the indices of the clone sources that record a as their parent
SiblingIndices(sources, a) ==
    {k \in 1..Len(sources) : RecordedAncestor(sources[k]) = a}

\* those of them whose transaction id is at the least distance from a's
NearestIndices(sources, a) ==
    {k \in SiblingIndices(sources, a) :
        \A j \in SiblingIndices(sources, a) :
            AbsDiff(ct[sources[k]], ct[a]) <= AbsDiff(ct[sources[j]], ct[a])}

\* C22: a successful search whose target's recorded parent A is no clone
\* source and for which several entries of the clone-source array record A
\* and are at the same, least distance of transaction ids from A finds the
\* one of them that comes first in the array.  (Stated for the searches without signed
\* overflow.)
C22_FirstOfTied ==
    \A n \in 1..Len(searches) :
        LET s == searches[n]
            a == RecordedAncestor(s.target)
            tied == NearestIndices(s.sources, a)
        IN  (/\ s.ret = 0
             /\ a # 0
             /\ a \notin Range(s.sources)
             /\ ~NegationOverflows(s.target, s.sources)
             /\ Cardinality(tied) >= 2) =>
                s.found = s.sources[CHOOSE k \in tied :
                                       \A j \in tied : k <= j]

\* what a round of the loop can come to after the parent determination of
\* lines 644-651: the position of cmd_send, ret and parent_root_id
SearchEnds ==
    {[pc |-> p, ret |-> r, found |-> f] :
        p \in {"send", "out", "abort"}, r \in {0, 0 - ENOENT},
        f \in 0..NSearchSub}

\* the parent determination of this state can end in e
SearchCanEnd(e) ==
    ENABLED (/\ NeedsSearch(full_send, parent_root_id)
             /\ \E trap \in BOOLEAN : FindParent(trap)
             /\ pc' = e.pc
             /\ ret' = e.ret
             /\ parent_root_id' = e.found)

C24_NoAncestor ==
    /\ \A k \in 1..Len(searches) :
          LET s == searches[k]
          IN  RecordedAncestor(s.target) = 0 =>
                  /\ s.ret = 0 - ENOENT
                  /\ s.found = 0
                  /\ clone_sources = s.sources
    /\ pc = "abort" => RecordedAncestor(root_id) # 0

\* the search has failed for a target without a recorded parent that is
\* itself among the clone sources, next to another subvolume without one
C24_Witness ==
    \E k \in 1..Len(searches) :
        LET s == searches[k]
        IN  /\ s.target # 0
            /\ RecordedAncestor(s.target) = 0
            /\ s.target \in Range(s.sources)
            /\ \E c \in Range(s.sources) :
                  c # s.target /\ RecordedAncestor(c) = 0
            /\ s.ret = 0 - ENOENT

\* C25: every call of find_good_parent has as its target the root id of
\* the item the loop is at, and in an incremental batch the id added to the
\* clone sources after an item is sent is the root id of that item.
C25_TargetIsCurrentItem ==
    /\ \A k \in 1..Len(searches) :
          searches[k].target = get_root_id(args[searches[k].item], 0).root_id
    /\ (pc = "loop" /\ i > 1 /\ full_send = 0) =>
          /\ clone_sources # <<>>
          /\ clone_sources[Len(clone_sources)] =
                get_root_id(args[i - 1], 0).root_id

\* C26: items are strictly sequential. do_send is called for an item after the
\* first only once the call before it has returned, the thread it started has
\* been joined, the kernel has written the whole stream of that item and
\* every byte of it is in the output (none in the pipe, none in the buffer);
\* and while a dump thread runs, it is the thread of the do_send in progress
\* or of the last do_send of a session that then ends
C26_StrictlySequential ==
    /\ [][(do_send_pc' = "setup" /\ do_send_pc # "setup") =>
              /\ do_send_pc = "idle"
              /\ sends # <<>>
              /\ do_send_ret = 0
              /\ dump_pc = "joined"
              /\ todo = <<>>
              /\ pipe = <<>>
              /\ sink = produced]_vars
    /\ [][(dump_pc' \in {"read", "write"} /\ do_send_pc' \in {"idle", "returned"}) =>
              /\ do_send_ret' < 0
              /\ pc' # "loop"]_vars

C26_Witness ==
    /\ Len(sends) = 2
    /\ sends[2].item = 2
    /\ do_send_pc = "returned"
    /\ dump_pc = "joined"
    /\ sink = Stream(MaxBytes) \o Stream(MaxBytes)
    /\ sink = produced

\* C27: the clone sources are changed only by the thread of cmd_send and only
\* while no dump thread runs: neither the kernel nor the dump thread changes
\* them, an entry is added only while no thread that was started is still
\* unjoined, and the array is released (out, lines 690-698) only then too
C27_SourcesChangeBetweenItems ==
    /\ [][(KernelStep \/ DumpStep) => clone_sources' = clone_sources]_vars
    /\ [][clone_sources' # clone_sources => dump_pc \in {"none", "joined"}]_vars
    /\ [][(pc' = "out" /\ pc # "out") => dump_pc \in {"none", "joined"}]_vars

\* the framing of one ioctl: is the stream header omitted, is the end command
Framing(s) == <<OmitsHeader(s), OmitsEndCmd(s)>>

\* C28: the framing convention is fixed for the whole batch. Once option
\* parsing is over new_end_cmd_semantic never changes, so every item's framing
\* is computed from the value it had before the first item was sent, and the
\* framing of every ioctl made so far is determined by that value and the
\* position of the item in the batch: two ioctls of a session differ in
\* framing only as their positions (first or not, last or not) differ
C28_FramingFixed ==
    /\ [][pc # "getopt" => new_end_cmd_semantic' = new_end_cmd_semantic]_vars
    /\ [][sends' # sends =>
              /\ new_end_cmd_semantic' = new_end_cmd_semantic
              /\ \A k \in 1..Len(sends) : Framing(sends'[k]) = Framing(sends[k])]_vars
    /\ [](\A k \in 1..Len(sends) :
              Framing(sends[k]) =
                  <<new_end_cmd_semantic # 0 /\ sends[k].item # 1,
                    new_end_cmd_semantic # 0 /\ sends[k].item # Len(args)>>)

\* a batch of two sent with -e and --no-data
C28_Witness ==
    /\ new_end_cmd_semantic = 1
    /\ "NO_FILE_DATA" \in send_flags
    /\ Len(args) = 2
    /\ Len(sends) = 2
    /\ Framing(sends[1]) = <<FALSE, TRUE>>
    /\ Framing(sends[2]) = <<TRUE, FALSE>>

\* does the ioctl ask for a stream without file data
NoFileData(s) == "NO_FILE_DATA" \in s.flags

\* C29: each ioctl is given the clone sources as they stand when it is made,
\* the parent chosen for its item and the no-data setting of the session.
\* The array of the ioctl is the array of cmd_send at that moment; in an
\* incremental batch it is the array of the ioctl before it with the one id
\* added after that ioctl at its end, in a full send it is empty; the
\* parent_root is the parent_root_id of that moment, which is the result of
\* the search made for the item where one was made; and every ioctl carries
\* NO_FILE_DATA iff --no-data was given
C29_IoctlArguments ==
    /\ [][sends' # sends =>
              /\ Len(sends') = Len(sends) + 1
              /\ sends'[Len(sends')].clone_sources = clone_sources
              /\ sends'[Len(sends')].parent_root = parent_root_id]_vars
    /\ [](\A k \in 1..Len(sends) :
              /\ NoFileData(sends[k]) <=> ("NO_FILE_DATA" \in send_flags)
              /\ full_send # 0 => sends[k].clone_sources = <<>>
              /\ (full_send = 0 /\ k > 1) =>
                     sends[k].clone_sources =
                         Append(sends[k - 1].clone_sources, root_id)
              /\ \A j \in 1..Len(searches) :
                     searches[j].item = sends[k].item =>
                         /\ searches[j].ret = 0
                         /\ searches[j].sources = sends[k].clone_sources
                         /\ searches[j].found = sends[k].parent_root)

\* the second ioctl of "send --no-data -c C A B": its array is that of the
\* first ioctl and the id added after it
C29_Witness ==
    /\ full_send = 0
    /\ snapshot_parent = 0
    /\ "NO_FILE_DATA" \in send_flags
    /\ Len(sends) = 2
    /\ sends[1].clone_sources # <<>>
    /\ Len(sends[2].clone_sources) = Len(sends[1].clone_sources) + 1
    /\ sends[2].parent_root # 0
    /\ NoFileData(sends[1]) /\ NoFileData(sends[2])

\* C30: write_buf retries partial writes. While it loops over a chunk, the
\* bytes it has written are the first pos bytes of the chunk, in order, at
\* the end of the output, and output, rest of the chunk and pipe together are
\* what the kernel has written; it returns to the read only with the whole
\* chunk written, once; a write that fails or takes no byte writes nothing,
\* ends the loop with an error and the process with it, and nothing is
\* written after
C30_WriteLoop ==
    /\ [](dump_pc = "write" =>
              /\ 0 <= pos /\ pos < Len(buf)
              /\ pos <= Len(sink)
              /\ SubSeq(sink, Len(sink) - pos + 1, Len(sink)) = SubSeq(buf, 1, pos)
              /\ sink \o SubSeq(buf, pos + 1, Len(buf)) \o pipe = produced)
    /\ [][(dump_pc = "write" /\ dump_pc' # "write" /\ pc' = pc) =>
              /\ dump_pc' = "read"
              /\ pos' = Len(buf)
              /\ buf' = buf
              /\ sink' = SubSeq(sink, 1, Len(sink) - pos) \o buf]_vars
    /\ [][\A written \in {0, 0 - 1} : DumpWrite(written) =>
              /\ sink' = sink
              /\ dump_ret' < 0
              /\ pc' = "exit"]_vars
    /\ [][pc = "exit" => sink' = sink]_vars

\* a chunk of two bytes of which a first write has taken one
C30_Witness ==
    /\ dump_pc = "write"
    /\ Len(buf) = BufSize
    /\ pos = 1
    /\ sink = <<buf[1]>>
    /\ pc = "send"

\* the bytes read from the pipe and not yet written to the output
Buffered == Len(produced) - Len(pipe) - Len(sink)

\* C31: dump_thread holds at most one chunk. The bytes read from the pipe and
\* not yet written are never more than sizeof(buf), and there are none of
\* them whenever the thread is at its read or has returned: the next read is
\* made only after write_buf has written the whole chunk
C31_OneChunk ==
    /\ Buffered >= 0
    /\ Buffered <= BufSize
    /\ dump_pc # "write" => Buffered = 0
    /\ dump_pc = "write" => Buffered = Len(buf) - pos

\* the pipe held more than one chunk: a full chunk was read and a byte left
C31_Witness ==
    /\ dump_pc = "write"
    /\ Buffered = BufSize
    /\ pipe # <<>>
    /\ pc = "send"

\* C32: nothing is retried. No two ioctls are made for the same item and no
\* two searches; an ioctl or a search is made only while no step has failed
\* (ret is 0, every search so far has found a parent, the process has not
\* ended), and the item after a successful ioctl is the next of the batch
C32_NoRetries ==
    /\ [](\A j, k \in 1..Len(sends) : j # k => sends[j].item # sends[k].item)
    /\ [](\A j, k \in 1..Len(searches) :
              j # k => searches[j].item # searches[k].item)
    /\ [][(sends' # sends \/ searches' # searches) =>
              /\ pc \in {"loop", "send"}
              /\ ret = 0
              /\ exit_status < 0
              /\ \A j \in 1..Len(searches) : searches[j].ret = 0
              /\ \A j \in 1..Len(sends) : sends[j].item < i]_vars
    /\ [][(pc \in {"out", "exit", "abort"}) => (pc' = pc)]_vars

\* the ioctl of the second of three items has failed after one search and
\* one ioctl for each of the two
C32_Witness ==
    /\ pc = "out"
    /\ ret = 0 - EINVAL
    /\ Len(args) = 3
    /\ Len(sends) = 2
    /\ Len(searches) = 2
    /\ searches[2].item = 2
    /\ sends[2].item = 2

\* C33: the batch is validated before anything is sent. Until the loop of
\* line 628 is entered no ioctl and no search has been made; it is entered
\* only when the loop of lines 587-623 has gone over every argument, which
\* it goes over one by one; and the round of that loop in which an argument
\* does not resolve, is not found under the mount root of the first, or is
\* not found read-only, ends cmd_send in error with no ioctl made
C33_BatchValidated ==
    /\ [](pc \in {"getopt", "validate"} => sends = <<>> /\ searches = <<>>)
    /\ [](pc = "validate" => i \in 1..(Len(args) + 1))
    /\ [][(pc = "validate" /\ pc' # "validate") =>
              \/ pc' = "loop" /\ i = Len(args) + 1 /\ i' = 1 /\ args' = args
              \/ pc' = "out" /\ ret' < 0 /\ exit_status' = 1]_vars
    /\ [][\A a \in Paths, mnt \in MountResults, ro \in RoResults :
              Validate(a, mnt, ro) =>
                  IF a # 0 /\ mnt = "same" /\ ro = 1
                  THEN /\ pc' = "validate"
                       /\ i' = i + 1
                       /\ Len(args') >= i
                       /\ args'[i] = a
                  ELSE /\ pc' = "out"
                       /\ ret' < 0
                       /\ exit_status' = 1
                       /\ sends' = <<>>]_vars
    /\ [][sends' # sends => \A k \in 1..Len(args) : args[k] # 0]_vars

\* the third argument has failed its check after two have passed theirs
C33_Witness ==
    /\ pc = "out"
    /\ ret = 0 - EINVAL
    /\ Len(args) = 3
    /\ i = 3
    /\ sends = <<>>
    /\ searches = <<>>

\* C34: dump_thread never uses the read end of the pipe after do_send has
\* closed it. While the thread is at its read or in write_buf the descriptor
\* is open, and do_send closes it (lines 331-332) and returns only when the
\* thread, if one was started, has returned
C34_ReadEndOutlivesThread ==
    /\ [](dump_pc \in {"read", "write"} => rfd)
    /\ [][(rfd /\ ~rfd') => dump_pc \in {"none", "done", "joined"}]_vars
    /\ [][\A readed \in {0 - 1, 0, 1} : DumpRead(readed) => rfd]_vars

\* C35: the distance by which find_good_parent ranks a clone source that
\* records the parent of the target is the absolute difference of the two
\* transaction ids, for all transaction ids of the width of u64, and the
\* negation of line 138 never overflows
C35_TrueDistance ==
    \A n \in 1..Len(searches) :
        LET s == searches[n]
            a == RecordedAncestor(s.target)
        IN  (a # 0 /\ a \notin Range(s.sources)) =>
                \A c \in Range(s.sources) :
                    RecordedAncestor(c) = a =>
                        /\ ~NegateWraps(SignedDiff(ct[c], ct[a]))
                        /\ Distance(ct[c], ct[a]) = AbsDiff(ct[c], ct[a])

\* can the record of clone source c and the record of its parent be found
Resolves(c) == RecordedAncestor(c) # 0

\* C36: a clone source whose record, or whose recorded parent, is not found
\* is passed over by the scan of lines 116-152 and does not make the search
\* fail: a search that comes to that scan (the parent of its target is no
\* clone source) returns, and finds, what find_good_parent returns and
\* finds over the array without those clone sources
C36_UnresolvedSkipped ==
    \A n \in 1..Len(searches) :
        LET s == searches[n]
            kept == SelectSeq(s.sources, Resolves)
            r == find_good_parent(s.target, kept, 0)
        IN  RecordedAncestor(s.target) \notin Range(s.sources) =>
                /\ s.ret = r.ret
                /\ s.found = r.found

\* a search has found the sibling that stands between a clone source without
\* a record and one without a recorded parent
C36_Witness ==
    \E n \in 1..Len(searches) :
        LET s == searches[n]
        IN  /\ Len(s.sources) = 3
            /\ s.sources[1] = 0
            /\ Resolves(s.sources[2])
            /\ s.sources[3] # 0 /\ ~Resolves(s.sources[3])
            /\ RecordedAncestor(s.target) # 0
            /\ RecordedAncestor(s.target) \notin Range(s.sources)
            /\ s.ret = 0
            /\ s.found = s.sources[2]

\* the root id of the subvolume given with -p
ExplicitParent == get_root_id(snapshot_parent, 0).root_id

\* C37: the parent given with -p is a clone source from before the first
\* ioctl to the end of the loop: it is in the array while the arguments are
\* validated and while the loop runs, and in the array of every ioctl made
C37_ParentIsCloneSource ==
    snapshot_parent # 0 =>
        /\ pc \in {"validate", "loop", "send"} =>
               /\ ExplicitParent # 0
               /\ ExplicitParent \in Range(clone_sources)
        /\ \A k \in 1..Len(sends) :
               ExplicitParent \in Range(sends[k].clone_sources)

\* "send -c C -p P A B": the second ioctl has C, P and the id added after
\* the first ioctl
C37_Witness ==
    /\ snapshot_parent # 0
    /\ Len(sends) = 2
    /\ Len(sends[2].clone_sources) = 3
    /\ sends[2].clone_sources[1] # ExplicitParent
    /\ sends[2].clone_sources[2] = ExplicitParent

\* an ioctl has been made for every item of the batch, the last do_send has
\* returned 0 after its join, and every byte the kernel has written is in
\* the output
AllExported ==
    /\ Len(args) >= 1
    /\ Len(sends) = Len(args)
    /\ do_send_ret = 0
    /\ dump_pc = "joined"
    /\ todo = <<>>
    /\ pipe = <<>>
    /\ sink = produced

\* the process has ended by exit or by the return of cmd_send
Exited == pc \in {"out", "exit"}

\* C38 as claimed: the process that has ended has a status, which is 0 if
\* and only if every item of the batch was exported and drained; the
\* process that dump_thread ends has a status that is not 0
C38_ExitStatus ==
    /\ ~Exited => exit_status < 0
    /\ Exited => exit_status >= 0
    /\ Exited => (exit_status = 0 <=> AllExported)
    /\ pc = "exit" => exit_status > 0

\* in an incremental send, the array holds what it held before the loop, at
\* least one id, and one id for each item sent: no add_clone_source failed
AddsSucceeded == full_send = 0 => Len(clone_sources) > Len(sends)

\* C38: the process that has ended has a status, which is 0 if and only if
\* every item of the batch was exported and drained and, in an incremental
\* send, every sent item was added to the clone sources; the process that
\* dump_thread ends has a status that is not 0
C38_ExitStatusWithAdds ==
    /\ ~Exited => exit_status < 0
    /\ Exited => exit_status >= 0
    /\ Exited => (exit_status = 0 <=> (AllExported /\ AddsSucceeded))
    /\ pc = "exit" => exit_status > 0

\* an incremental send of two items has ended with status 0
C38_Witness ==
    /\ pc = "out"
    /\ exit_status = 0
    /\ full_send = 0
    /\ Len(sends) = 2
    /\ sink = Stream(MaxBytes) \o Stream(1)

\* the fsids in the lists of the table
InTable == UNION {Range(seen_fsid_hash[slot]) : slot \in Slots}

\* C39: is_seen_fsid(f) returns true if and only if f was added and the
\* table not freed since, so not for an fsid that only shares its first
\* byte with an added one; add_seen_fsid of an fsid that is in the table
\* returns -EEXIST and the table holds every added fsid once
C39_SeenIffAdded ==
    /\ \A f \in Fsids : is_seen_fsid(f) = 1 <=> f \in added_fsids
    /\ fsid_call.fn = "is_seen_fsid" =>
           (fsid_call.ret = 1 <=> fsid_call.fsid \in added_fsids)
    /\ (fsid_call.fn = "add_seen_fsid" /\ fsid_call.ret = 0 - EEXIST) =>
           fsid_call.fsid \in added_fsids
    /\ InTable = added_fsids
    /\ \A slot \in Slots :
           \A j, k \in 1..Len(seen_fsid_hash[slot]) :
               seen_fsid_hash[slot][j] = seen_fsid_hash[slot][k] => j = k

====
